---------------------------- MODULE Spec2Model ----------------------------
(***************************************************************************)
(* Model of the binary extension field layer of banquet (src/field.cpp):   *)
(* the GF2E element type with its carry-less multiplication and the three  *)
(* Barrett style reduction routines, the process wide field configuration  *)
(* (reduce, byte_size, lifting_lut) and the polynomial engine built on it. *)
(*                                                                         *)
(* A machine word is modelled by the set of its set bit positions: a       *)
(* uint64_t is a subset of 0..63, an __m128i a subset of 0..127.  XOR is   *)
(* the symmetric difference, a shift moves the positions, a mask filters   *)
(* them, and every operation truncates to the width of the C type.         *)
(*                                                                         *)
(* field.h is not part of the sources at hand.  GF2E() is taken to be the  *)
(* zero element, as eval (GF2E acc), init_extension_field (GF2E gen) and   *)
(* the static lifting_lut rely on, and GF2E(uint64_t) to keep the word it  *)
(* is given.  The inverse of precompute_lagrange_polynomials is NTL's.     *)
(***************************************************************************)
EXTENDS Integers, Sequences, FiniteSets

(***************************************************************************)
(* Bounds of the model.                                                    *)
(***************************************************************************)
\* longest operand vectors handed to dot_product
MaxVecLen == 2
\* largest number of roots handed to build_from_roots
MaxRoots == 4
\* largest number of interpolation points
MaxPoints == 3

(***************************************************************************)
(* Machine words.                                                          *)
(***************************************************************************)
XOR(a, b) == (a \ b) \cup (b \ a)

AND(a, b) == a \cap b

\* a | b
OR(a, b) == a \cup b

\* a << k on a 64 bit word
SHL64(a, k) == {i + k : i \in {j \in a : j + k < 64}}

\* a >> k
SHR(a, k) == {i - k : i \in {j \in a : j >= k}}

\* the mask with the w low bits set
MASK(w) == 0 .. (w - 1)

\* _mm_extract_epi64(in, 0) and _mm_extract_epi64(in, 1)
extract_lo(in) == {i \in in : i < 64}
extract_hi(in) == {i - 64 : i \in {j \in in : j >= 64 /\ j < 128}}

\* _mm_clmulepi64_si128: the 128 bit carry-less product of two 64 bit words
clmul(a, b) ==
    IF Cardinality(a) <= Cardinality(b)
    THEN {k \in 0 .. 126 : Cardinality({i \in a : (k - i) \in b}) % 2 = 1}
    ELSE {k \in 0 .. 126 : Cardinality({i \in b : (k - i) \in a}) % 2 = 1}

(***************************************************************************)
(* The three moduli and their reduction routines.                          *)
(***************************************************************************)
P_GF2_32 == {32, 7, 3, 2, 0}
\* the modulus of GF(2^40) with the low terms of the one of GF(2^48)
P_GF2_40_typo == {40, 5, 3, 2, 0}
P_GF2_40 == {40, 5, 4, 3, 0}
P_GF2_48 == {48, 5, 3, 2, 0}

reduce_GF2_32(in) ==
    LET P == P_GF2_32
        mu == P
        R == extract_lo(in)
        T1 == extract_lo(clmul(SHR(R, 32), mu))
        T2 == extract_lo(clmul(SHR(T1, 32), P))
    IN  AND(MASK(32), XOR(R, T2))

reduce_GF2_40(in) ==
    LET P == P_GF2_40
        mu == P
        upper_mask == MASK(16)
        R == extract_lo(in)
        R_red == OR(SHL64(AND(extract_hi(in), upper_mask), 24), SHR(R, 40))
        T1 == clmul(R_red, mu)
        T1_red == OR(SHL64(AND(extract_hi(T1), upper_mask), 24),
                     SHR(extract_lo(T1), 40))
        T2 == extract_lo(clmul(T1_red, P))
    IN  AND(MASK(40), XOR(R, T2))

\* reduce_GF2_48 with the shifts of reduce_GF2_40 left in R_red
reduce_GF2_48_shift40(in) ==
    LET P == P_GF2_48
        mu == P
        upper_mask == MASK(32)
        R == extract_lo(in)
        R_red == OR(SHL64(AND(extract_hi(in), upper_mask), 24), SHR(R, 40))
        T1 == clmul(R_red, mu)
        T1_red == OR(SHL64(AND(extract_hi(T1), upper_mask), 16),
                     SHR(extract_lo(T1), 48))
        T2 == extract_lo(clmul(T1_red, P))
    IN  AND(MASK(56), XOR(R, T2))

\* the mask of the last line is the source's 0xFFFFFFFFFFFFFF: 14 hex digits
reduce_GF2_48(in) ==
    LET P == P_GF2_48
        mu == P
        upper_mask == MASK(32)
        R == extract_lo(in)
        R_red == OR(SHL64(AND(extract_hi(in), upper_mask), 16), SHR(R, 48))
        T1 == clmul(R_red, mu)
        T1_red == OR(SHL64(AND(extract_hi(T1), upper_mask), 16),
                     SHR(extract_lo(T1), 48))
        T2 == extract_lo(clmul(T1_red, P))
    IN  AND(MASK(56), XOR(R, T2))

Routines == {"reduce_GF2_32", "reduce_GF2_40", "reduce_GF2_48"}

\* a call through the std::function GF2E::reduce holding routine r
call_reduce(r, in) ==
    CASE r = "reduce_GF2_32" -> reduce_GF2_32(in)
      [] r = "reduce_GF2_40" -> reduce_GF2_40(in)
      [] r = "reduce_GF2_48" -> reduce_GF2_48(in)

\* the field width, in bits, a reduction routine reduces to
Width(r) ==
    CASE r = "reduce_GF2_32" -> 32
      [] r = "reduce_GF2_40" -> 40
      [] r = "reduce_GF2_48" -> 48

(***************************************************************************)
(* GF2E: the element is its uint64_t data.  r is the routine GF2E::reduce  *)
(* holds when the operator runs, bs is GF2E::byte_size.                    *)
(***************************************************************************)
\* GF2E(uint64_t data) keeps the raw word; GF2E() is the zero word
GF2E_raw(data) == AND(data, MASK(64))

GF2E_zero == {}

GF2E_one == {0}

\* operator+, operator+=, operator-, operator-=
GF2E_add(a, b) == XOR(a, b)

\* operator*
GF2E_mul(r, a, b) == call_reduce(r, clmul(a, b))

\* operator*=: the new value of this->data
GF2E_mul_assign(r, a, b) == call_reduce(r, clmul(a, b))

\* GF2E::inverse returns the element itself
GF2E_inverse(a) == a

\* the value of a byte held as a set of bit positions 0..7
ByteOf(bits) ==
    LET w(k) == IF k \in bits THEN 2 ^ k ELSE 0
    IN  w(0) + w(1) + w(2) + w(3) + w(4) + w(5) + w(6) + w(7)

\* the bit positions of a byte value
BitsOf(byte) == {k \in 0 .. 7 : (byte \div (2 ^ k)) % 2 = 1}

\* to_bytes with the bytes of the word taken most significant first
to_bytes_be(bs, a) ==
    [j \in 1 .. bs |-> ByteOf(SHR({i \in a : i >= 8 * (8 - j) /\ i < 8 * (8 - j) + 8},
                                  8 * (8 - j)))]

\* to_bytes: htole64, then the first byte_size bytes of the word
to_bytes(bs, a) ==
    [j \in 1 .. bs |-> ByteOf(SHR({i \in a : i >= 8 * (j - 1) /\ i < 8 * j},
                                  8 * (j - 1)))]

\* from_bytes: data = 0, byte_size bytes copied over its low end, le64toh
from_bytes(bs, in) ==
    UNION {{8 * (j - 1) + k : k \in BitsOf(in[j])} : j \in 1 .. bs}

(***************************************************************************)
(* init_extension_field and the lifting table.                             *)
(***************************************************************************)
\* the routine a case of the switch stores in GF2E::reduce
selected_reduce_stale(lambda) ==
    CASE lambda = 4 -> "reduce_GF2_32"
      [] lambda = 5 -> "reduce_GF2_40"
      [] lambda = 6 -> "reduce_GF2_40"

selected_reduce(lambda) ==
    CASE lambda = 4 -> "reduce_GF2_32"
      [] lambda = 5 -> "reduce_GF2_40"
      [] lambda = 6 -> "reduce_GF2_48"

\* the width a case of the switch stores in GF2E::byte_size
selected_byte_size(lambda) ==
    CASE lambda = 4 -> 4
      [] lambda = 5 -> 5
      [] lambda = 6 -> 6

\* the generator with the coefficient of y^9 left out for lambda = 5
generator_typo(lambda) ==
    CASE lambda = 4 -> {30, 23, 21, 18, 14, 13, 11, 9, 7, 6, 5, 4, 3, 1}
      [] lambda = 5 -> {31, 30, 27, 25, 22, 21, 20, 18, 15, 6, 4, 2}
      [] lambda = 6 -> {45, 43, 40, 37, 36, 35, 34, 33, 31, 30, 29, 28, 24, 21,
                        20, 19, 16, 14, 13, 11, 10, 7, 3, 2}

\* gen after the set_coeff calls of a case
generator(lambda) ==
    CASE lambda = 4 -> {30, 23, 21, 18, 14, 13, 11, 9, 7, 6, 5, 4, 3, 1}
      [] lambda = 5 -> {31, 30, 27, 25, 22, 21, 20, 18, 15, 9, 6, 4, 2}
      [] lambda = 6 -> {45, 43, 40, 37, 36, 35, 34, 33, 31, 30, 29, 28, 24, 21,
                        20, 19, 16, 14, 13, 11, 10, 7, 3, 2}

\* the loop of init_lifting_lut from bit on: lut is the table so far, pow the
\* current power of the generator
RECURSIVE lut_fill(_, _, _, _, _)
lut_fill(lut, pow, bit, gen, r) ==
    IF bit >= 8 THEN lut
    ELSE LET start == 2 ^ bit
             filled == [v \in 0 .. 255 |->
                          IF v >= start /\ v < 2 * start
                          THEN GF2E_add(lut[v - start], pow)
                          ELSE lut[v]]
         IN  lut_fill(filled, GF2E_mul(r, pow, gen), bit + 1, gen, r)

\* init_lifting_lut with the line pow = pow * generator left out
RECURSIVE lut_fill_nopow(_, _, _, _, _)
lut_fill_nopow(lut, pow, bit, gen, r) ==
    IF bit >= 8 THEN lut
    ELSE LET start == 2 ^ bit
             filled == [v \in 0 .. 255 |->
                          IF v >= start /\ v < 2 * start
                          THEN GF2E_add(lut[v - start], pow)
                          ELSE lut[v]]
         IN  lut_fill_nopow(filled, pow, bit + 1, gen, r)

init_lifting_lut_nopow(old, gen, r) ==
    lut_fill_nopow([old EXCEPT ![0] = GF2E_zero, ![1] = GF2E_one], gen, 1, gen, r)

\* init_lifting_lut(generator), run on the table old while GF2E::reduce is r
init_lifting_lut(old, gen, r) ==
    lut_fill([old EXCEPT ![0] = GF2E_zero, ![1] = GF2E_one], gen, 1, gen, r)

\* lift_uint8_t applied to the entry after the one asked for
lift_uint8_t_next(lut, value) == lut[(value + 1) % 256]

\* lift_uint8_t
lift_uint8_t(lut, value) == lut[value]

(***************************************************************************)
(* The polynomial engine.  A std::vector<GF2E> is a sequence; index i of   *)
(* the source is index i + 1 here.                                         *)
(***************************************************************************)
RECURSIVE XorOver(_, _, _)
\* f[lo] ^ ... ^ f[hi], the empty sum being 0
XorOver(f, lo, hi) ==
    IF lo > hi THEN {} ELSE XOR(f[hi], XorOver(f, lo, hi - 1))

\* operator*(vector, GF2E)
vec_scale(r, lhs, rhs) == [i \in 1 .. Len(lhs) |-> GF2E_mul_assign(r, lhs[i], rhs)]

\* operator+=(vector, vector) on vectors of one size
vec_add_assign(lhs, rhs) == [i \in 1 .. Len(lhs) |-> GF2E_add(lhs[i], rhs[i])]

\* the loops of operator*(vector, vector) from the n-th pair (i, j) on, the
\* pairs counted row by row: result[i + j] += lhs[i] * rhs[j]
RECURSIVE poly_mul_from(_, _, _, _, _)
poly_mul_from(r, lhs, rhs, result, n) ==
    IF n >= Len(lhs) * Len(rhs) THEN result
    ELSE LET i == n \div Len(rhs)
             j == n % Len(rhs)
         IN  poly_mul_from(r, lhs, rhs,
                [result EXCEPT ![i + j + 1] =
                    GF2E_add(@, GF2E_mul(r, lhs[i + 1], rhs[j + 1]))],
                n + 1)

\* operator*(vector, vector), the naive polynomial multiplication
poly_mul(r, lhs, rhs) ==
    poly_mul_from(r, lhs, rhs,
                  [k \in 1 .. (Len(lhs) + Len(rhs) - 1) |-> GF2E_zero], 0)

\* eval: Horner, from the highest coefficient down
RECURSIVE eval_from(_, _, _, _, _)
eval_from(r, poly, point, acc, i) ==
    IF i < 0 THEN acc
    ELSE eval_from(r, poly, point,
                   GF2E_add(GF2E_mul_assign(r, acc, point), poly[i + 1]), i - 1)

eval(r, poly, point) == eval_from(r, poly, point, GF2E_zero, Len(poly) - 1)

\* the inner loop of build_from_roots: for (i = k - 1; i >= 1; i--)
RECURSIVE roots_sweep(_, _, _, _)
roots_sweep(r, poly, tmp, i) ==
    IF i < 1 THEN poly
    ELSE roots_sweep(r,
                     [poly EXCEPT ![i + 1] =
                         GF2E_add(GF2E_mul(r, poly[i + 1], tmp), poly[i])],
                     tmp, i - 1)

\* the same sweep run upwards, from index 1 to index last
RECURSIVE roots_sweep_up(_, _, _, _, _)
roots_sweep_up(r, poly, tmp, i, last) ==
    IF i > last THEN poly
    ELSE roots_sweep_up(r,
                        [poly EXCEPT ![i + 1] =
                            GF2E_add(GF2E_mul(r, poly[i + 1], tmp), poly[i])],
                        tmp, i + 1, last)

\* the outer loop of build_from_roots: for (k = 1; k < len; k++)
RECURSIVE roots_loop(_, _, _, _)
roots_loop(r, poly, k, len) ==
    IF k >= len THEN poly
    ELSE LET tmp == poly[k + 1]
             p1 == [poly EXCEPT ![k + 1] = GF2E_add(tmp, poly[k])]
             p2 == roots_sweep(r, p1, tmp, k - 1)
             p3 == [p2 EXCEPT ![1] = GF2E_mul_assign(r, p2[1], tmp)]
         IN  roots_loop(r, p3, k + 1, len)

RECURSIVE roots_loop_up(_, _, _, _)
roots_loop_up(r, poly, k, len) ==
    IF k >= len THEN poly
    ELSE LET tmp == poly[k + 1]
             p1 == [poly EXCEPT ![k + 1] = GF2E_add(tmp, poly[k])]
             p2 == roots_sweep_up(r, p1, tmp, 1, k - 1)
             p3 == [p2 EXCEPT ![1] = GF2E_mul_assign(r, p2[1], tmp)]
         IN  roots_loop_up(r, p3, k + 1, len)

\* build_from_roots with the inner sweep run from low to high indices
build_from_roots_up(r, roots) ==
    LET len == Len(roots)
        poly == roots_loop_up(r, Append(roots, GF2E_zero), 1, len)
    IN  [poly EXCEPT ![len + 1] = GF2E_one]

\* build_from_roots
build_from_roots(r, roots) ==
    LET len == Len(roots)
        poly == roots_loop(r, Append(roots, GF2E_zero), 1, len)
    IN  [poly EXCEPT ![len + 1] = GF2E_one]

\* dot_product that hands only the low quadword of accum to reduce
dot_product_lo(r, lhs, rhs) ==
    call_reduce(r, extract_lo(XorOver([i \in 1 .. Len(lhs) |-> clmul(lhs[i], rhs[i])],
                                      1, Len(lhs))))

\* dot_product on vectors of one size: one reduction of the XOR of the products
dot_product(r, lhs, rhs) ==
    LET accum == XorOver([i \in 1 .. Len(lhs) |-> clmul(lhs[i], rhs[i])], 1, Len(lhs))
    IN  call_reduce(r, accum)

(***************************************************************************)
(* Reference arithmetic of GF(2)[x], written without the routines above:   *)
(* the product by its definition, the remainder by substituting the low    *)
(* terms of the modulus for x^w, the inverse as a power.                   *)
(***************************************************************************)
\* coefficient k of a product: the parity of the pairs i + j = k
CarrylessProduct(a, b) ==
    {k \in 0 .. 254 : Cardinality({i \in a : (k - i) \in b}) % 2 = 1}

\* the modulus of the field of w bits, as the comments of the source give it
Modulus(w) ==
    CASE w = 32 -> {32, 7, 3, 2, 0}
      [] w = 40 -> {40, 5, 4, 3, 0}
      [] w = 48 -> {48, 5, 3, 2, 0}

\* the remainder of x modulo Modulus(w): x^w is Modulus(w) \ {w}
RECURSIVE RefMod(_, _)
RefMod(x, w) ==
    IF x \subseteq MASK(w) THEN x
    ELSE RefMod(XOR({i \in x : i < w},
                    CarrylessProduct({i - w : i \in {j \in x : j >= w}},
                                     Modulus(w) \ {w})),
                w)

\* the product in the field of w bits
RefMul(w, a, b) == RefMod(CarrylessProduct(a, b), w)

\* a^(2^k): k squarings
RECURSIVE RefSquarings(_, _, _)
RefSquarings(w, a, k) ==
    IF k = 0 \/ a = {} THEN a ELSE RefSquarings(w, RefMul(w, a, a), k - 1)

\* a^(2^k - 1), for k >= 1
RECURSIVE RefPowOnes(_, _, _)
RefPowOnes(w, a, k) ==
    IF k = 1 THEN a
    ELSE IF k % 2 = 0
         THEN LET h == RefPowOnes(w, a, k \div 2)
              IN  RefMul(w, RefSquarings(w, h, k \div 2), h)
         ELSE RefMul(w, RefSquarings(w, RefPowOnes(w, a, k - 1), 1), a)

\* utils::ntl_to_custom(inv(utils::custom_to_ntl(a))): the exact inverse of a
\* nonzero a in the field GF2E::reduce r reduces to, a^(2^w - 2)
ntl_inv(r, a) == RefSquarings(Width(r), RefPowOnes(Width(r), a, Width(r) - 1), 1)

(***************************************************************************)
(* Lagrange interpolation.                                                 *)
(***************************************************************************)
\* get_first_n_field_elements: x, x^2, ..., x^n for x = GF2E(2)
RECURSIVE first_n_from(_, _, _, _)
first_n_from(r, result, gen, left) ==
    IF left = 0 THEN result
    ELSE first_n_from(r, Append(result, gen), GF2E_mul(r, gen, GF2E_raw({1})), left - 1)

get_first_n_field_elements(r, n) == first_n_from(r, <<>>, GF2E_raw({1}), n)

\* the x_values without the one at index k (1 based here)
x_except(x_values, k) ==
    [i \in 1 .. (Len(x_values) - 1) |-> IF i < k THEN x_values[i] ELSE x_values[i + 1]]

\* the inner loop of precompute_lagrange_polynomials: denominator after index j
RECURSIVE denominator_from(_, _, _, _, _)
denominator_from(r, x_values, k, j, denominator) ==
    IF j > Len(x_values) THEN denominator
    ELSE denominator_from(r, x_values, k, j + 1,
            IF k # j
            THEN GF2E_mul_assign(r, denominator, GF2E_add(x_values[k], x_values[j]))
            ELSE denominator)

\* precompute_lagrange_polynomials
precompute_lagrange_polynomials(r, x_values) ==
    [k \in 1 .. Len(x_values) |->
        LET denominator == denominator_from(r, x_values, k, 1, GF2E_one)
            numerator == build_from_roots(r, x_except(x_values, k))
        IN  vec_scale(r, numerator, ntl_inv(r, denominator))]

\* whether interpolate_with_precomputation throws: its own size test, or the
\* size test of operator+= on res and a scaled basis polynomial
interpolate_throws(basis, y_values) ==
    \/ Len(basis) # Len(y_values)
    \/ Len(y_values) = 0
    \/ \E k \in 1 .. Len(basis) : Len(basis[k]) # Len(basis[1])

\* the loop of interpolate_with_precomputation from index k on
RECURSIVE interpolate_from(_, _, _, _, _)
interpolate_from(r, basis, y_values, res, k) ==
    IF k > Len(y_values) THEN res
    ELSE interpolate_from(r, basis, y_values,
                          vec_add_assign(res, vec_scale(r, basis[k], y_values[k])),
                          k + 1)

\* interpolate_with_precomputation keeping only the last term (res = for res +=)
interpolate_last(r, basis, y_values) ==
    vec_scale(r, basis[Len(y_values)], y_values[Len(y_values)])

\* interpolate_with_precomputation when it does not throw
interpolate_with_precomputation(r, basis, y_values) ==
    interpolate_from(r, basis, y_values,
                     [i \in 1 .. Len(basis[1]) |-> GF2E_zero], 1)

(***************************************************************************)
(* The state: the process wide configuration, and the call in progress.    *)
(* A caller makes one call at a time and takes its result before the next. *)
(***************************************************************************)
VARIABLES
    reduce,       \* GF2E::reduce: the name of the routine it holds
    byte_size,    \* GF2E::byte_size
    lifting_lut,  \* the 256 entry table
    configured,   \* history: lambda of the last init_extension_field call
                  \* that returned, 0 when none did
    op,           \* the call made last, "none" once its result is taken
    args,         \* its arguments
    ret,          \* its result
    err           \* whether it threw

config == <<reduce, byte_size, lifting_lut, configured>>
vars == <<reduce, byte_size, lifting_lut, configured, op, args, ret, err>>

\* the largest lambda handed to init_extension_field
MaxLambda == 7

Bytes == 0 .. 255

\* the static initialisers: reduce_GF2_32, 4, and a table of GF2E()
Init ==
    /\ reduce = "reduce_GF2_32"
    /\ byte_size = 4
    /\ lifting_lut = [v \in Bytes |-> GF2E_zero]
    /\ configured = 0
    /\ op = "none" /\ args = <<>> /\ ret = {} /\ err = FALSE

Idle == op = "none"

\* a call that leaves the configuration alone
Call(o, a, v, e) ==
    /\ op' = o /\ args' = a /\ ret' = v /\ err' = e
    /\ UNCHANGED config

\* the caller takes the result
Return ==
    /\ op # "none"
    /\ op' = "none" /\ args' = <<>> /\ ret' = {} /\ err' = FALSE
    /\ UNCHANGED config

(***************************************************************************)
(* The inputs the calls are made with.                                     *)
(***************************************************************************)
SeqsUpTo(S, n) == UNION {[1 .. k -> S] : k \in 0 .. n}

Range(f) == {f[i] : i \in DOMAIN f}

Generators == {generator(4), generator(5), generator(6)}

\* 64 bit words: every single bit, and dense words of each width
Word64Samples ==
    {{k} : k \in 0 .. 63}
        \cup {{}, MASK(32), MASK(40), MASK(48), MASK(64)} \cup Generators

\* 128 bit words: every single bit, dense words, products of dense words
Word128Samples ==
    {{k} : k \in 0 .. 127}
        \cup {{}, MASK(128), MASK(128) \ MASK(64)}
        \cup {clmul(a, b) : a, b \in Generators \cup {MASK(64)}}

\* elements of the active field: dense ones and the top bit
DenseSamples == {generator(byte_size), MASK(8 * byte_size), {8 * byte_size - 1}}

\* bytes whose lifts are multiplied with every lift
MulBytes == {2 ^ k : k \in 0 .. 7} \cup {0, 3, 27, 83, 202, 255}

\* evaluation points and roots: x, x^2, a dense element and 1
PointSamples ==
    Range(get_first_n_field_elements(reduce, 2))
        \cup {generator(byte_size), GF2E_one}

ValueSamples == {generator(byte_size), MASK(8 * byte_size)}

IsInjective(f) == \A i, j \in DOMAIN f : i # j => f[i] # f[j]

(***************************************************************************)
(* The calls.                                                              *)
(***************************************************************************)
\* GF2E::init_extension_field(instance) for instance.lambda = lambda
init_extension_field(lambda) ==
    IF lambda \in {4, 5, 6}
    THEN /\ reduce' = selected_reduce(lambda)
         /\ byte_size' = selected_byte_size(lambda)
         /\ lifting_lut' = init_lifting_lut(lifting_lut, generator(lambda), reduce')
         /\ configured' = lambda
         /\ op' = "init_extension_field" /\ args' = <<lambda>>
         /\ ret' = {} /\ err' = FALSE
    ELSE Call("init_extension_field", <<lambda>>, {}, TRUE)

InitExtensionField ==
    /\ Idle
    /\ \E lambda \in 0 .. MaxLambda : init_extension_field(lambda)

\* a * b (form "*") and a *= b (form "*=")
Mul(form, a, b) ==
    Call("mul", <<form, a, b>>,
         IF form = "*" THEN GF2E_mul(reduce, a, b)
                       ELSE GF2E_mul_assign(reduce, a, b),
         FALSE)

\* products of raw 64 bit words
MulWords ==
    /\ Idle
    /\ \E form \in {"*", "*="}, a, b \in Word64Samples :
           Mul(form, GF2E_raw(a), GF2E_raw(b))

\* GF2E::reduce(in)
Reduce128 ==
    /\ Idle
    /\ \E in \in Word128Samples : Call("reduce", <<in>>, call_reduce(reduce, in), FALSE)

\* dot_product(lhs, rhs), which throws on vectors of different sizes; the
\* operands are elements of the active field and the raw word of all ones
DotProduct ==
    /\ Idle
    /\ \E lhs, rhs \in SeqsUpTo(DenseSamples \cup {GF2E_raw(MASK(64))}, MaxVecLen) :
           IF Len(lhs) # Len(rhs)
           THEN Call("dot_product", <<lhs, rhs>>, {}, TRUE)
           ELSE Call("dot_product", <<lhs, rhs>>, dot_product(reduce, lhs, rhs), FALSE)

\* the elements handed to to_bytes, each with the way it was obtained
ElementPool ==
    LET lifted == {lift_uint8_t(lifting_lut, v) : v \in Bytes}
        products == {GF2E_mul(reduce, a, b) : a, b \in Generators \cup {MASK(64)}}
        sums == {GF2E_add(lift_uint8_t(lifting_lut, v), b) : v \in MulBytes, b \in products}
    IN  ({"raw"} \X {GF2E_raw(w) : w \in Word64Samples})
            \cup ({"lift"} \X lifted)
            \cup ({"mul"} \X products)
            \cup ({"add"} \X sums)

\* a.to_bytes(out): of an element of the pool, or of the one from_bytes gave
ToBytes ==
    \/ /\ Idle
       /\ \E e \in ElementPool :
              Call("to_bytes", e, to_bytes(byte_size, e[2]), FALSE)
    \/ /\ op = "from_bytes"
       /\ Call("to_bytes", <<"from_bytes", ret>>, to_bytes(byte_size, ret), FALSE)

\* b.from_bytes(in) on the buffer to_bytes has just written; args keeps the
\* element that was written
FromBytes ==
    /\ op = "to_bytes"
    /\ Call("from_bytes", <<args[1], args[2], ret>>, from_bytes(byte_size, ret), FALSE)

\* lift_uint8_t(value): a plain table access, nothing in it throws
Lift ==
    /\ Idle
    /\ \E value \in Bytes :
           Call("lift", <<value>>, lift_uint8_t(lifting_lut, value), FALSE)

\* lift_uint8_t(p) * lift_uint8_t(q)
MulLifted ==
    /\ Idle
    /\ \E p \in Bytes, q \in MulBytes :
           Mul("*", lift_uint8_t(lifting_lut, p), lift_uint8_t(lifting_lut, q))

\* build_from_roots(roots)
BuildFromRoots ==
    /\ Idle
    /\ \E roots \in SeqsUpTo(PointSamples, MaxRoots) :
           Call("build_from_roots", <<roots>>, build_from_roots(reduce, roots), FALSE)

\* precompute_lagrange_polynomials(x_values) on pairwise distinct x_values
Precompute ==
    /\ Idle
    /\ \E x_values \in SeqsUpTo(PointSamples, MaxPoints) :
           /\ IsInjective(x_values)
           /\ Call("precompute", <<x_values>>,
                   precompute_lagrange_polynomials(reduce, x_values), FALSE)

\* interpolate_with_precomputation(basis, y_values) on the basis just
\* precomputed; args keeps the x_values it was precomputed for
Interpolate ==
    /\ op = "precompute"
    /\ \E y_values \in SeqsUpTo(ValueSamples, MaxPoints) :
           IF interpolate_throws(ret, y_values)
           THEN Call("interpolate", <<args[1], ret, y_values>>, <<>>, TRUE)
           ELSE Call("interpolate", <<args[1], ret, y_values>>,
                     interpolate_with_precomputation(reduce, ret, y_values), FALSE)

(***************************************************************************)
(* The specifications: the whole interface, and the configuration with     *)
(* the element operations, the lifting table, the polynomial engine.       *)
(***************************************************************************)
NextField ==
    \/ InitExtensionField
    \/ MulWords
    \/ Reduce128
    \/ DotProduct
    \/ ToBytes
    \/ FromBytes
    \/ Return

NextLift ==
    \/ InitExtensionField
    \/ Lift
    \/ MulLifted
    \/ Return

NextPoly ==
    \/ InitExtensionField
    \/ BuildFromRoots
    \/ Precompute
    \/ Interpolate
    \/ Return

Next == NextField \/ NextLift \/ NextPoly

SpecField == Init /\ [][NextField]_vars
SpecLift == Init /\ [][NextLift]_vars
SpecPoly == Init /\ [][NextPoly]_vars
Spec == Init /\ [][Next]_vars

(***************************************************************************)
(* What the properties are stated against: the field and the table as the  *)
(* comments of init_extension_field document them.                         *)
(***************************************************************************)
\* the routine of the field of 8 * lambda bits
RoutineOf(lambda) ==
    CASE lambda = 4 -> "reduce_GF2_32"
      [] lambda = 5 -> "reduce_GF2_40"
      [] lambda = 6 -> "reduce_GF2_48"

\* the image of x under the ring morphism the comment of a case gives
MorphismImage(lambda) ==
    CASE lambda = 4 -> {30, 23, 21, 18, 14, 13, 11, 9, 7, 6, 5, 4, 3, 1}
      [] lambda = 5 -> {31, 30, 27, 25, 22, 21, 20, 18, 15, 9, 6, 4, 2}
      [] lambda = 6 -> {45, 43, 40, 37, 36, 35, 34, 33, 31, 30, 29, 28, 24, 21,
                        20, 19, 16, 14, 13, 11, 10, 7, 3, 2}

\* that image to the power b, in the field of 8 * lambda bits
RECURSIVE RefGenPow(_, _)
RefGenPow(lambda, b) ==
    IF b = 0 THEN {0}
    ELSE RefMul(8 * lambda, RefGenPow(lambda, b - 1), MorphismImage(lambda))

RefGenPowTable == [lambda \in {4, 5, 6} |-> [b \in 0 .. 7 |-> RefGenPow(lambda, b)]]

\* the XOR, over the set bits b of v, of the b-th power
RefLiftTable ==
    [lambda \in {4, 5, 6} |->
        [v \in Bytes |->
            XorOver([b \in 0 .. 7 |->
                        IF b \in BitsOf(v) THEN RefGenPowTable[lambda][b] ELSE {}],
                    0, 7)]]

\* p XOR q on byte values
ByteXor(p, q) == ByteOf(XOR(BitsOf(p), BitsOf(q)))

\* the product of the factors (X - r), by operator*(vector, vector)
RECURSIVE RefRootProduct(_, _, _)
RefRootProduct(r, roots, n) ==
    IF n = 0 THEN <<GF2E_one>>
    ELSE poly_mul(r, RefRootProduct(r, roots, n - 1), <<roots[n], GF2E_one>>)

LiftImage == {lifting_lut[v] : v \in Bytes}

(***************************************************************************)
(* The properties.                                                         *)
(***************************************************************************)
\* C1: whenever interpolate_with_precomputation is handed the basis
\* precomputed for m >= 1 pairwise distinct x_values and m y_values, it does
\* not throw, its result P has length m and eval(P, x_values[k]) is
\* y_values[k] for every k.
InterpolationCorrect ==
    (op = "interpolate" /\ Len(args[1]) >= 1 /\ Len(args[3]) = Len(args[1]))
        => /\ ~err
           /\ Len(ret) = Len(args[1])
           /\ \A k \in 1 .. Len(args[1]) :
                  eval(reduce, ret, args[1][k]) = args[3][k]

InterpolationWitness ==
    /\ op = "interpolate" /\ ~err
    /\ configured = 6
    /\ Len(args[3]) = 3
    /\ ret[3] # GF2E_zero

\* C2: build_from_roots(R) has length Len(R) + 1 and leading coefficient 1,
\* is the product of the factors (X - r) multiplied out of place, evaluates
\* to 0 at every root, and is the constant 1 for no roots.
RootPolynomialCorrect ==
    op = "build_from_roots"
        => /\ Len(ret) = Len(args[1]) + 1
           /\ ret[Len(ret)] = GF2E_one
           /\ ret = RefRootProduct(reduce, args[1], Len(args[1]))
           /\ \A i \in 1 .. Len(args[1]) : eval(reduce, ret, args[1][i]) = GF2E_zero
           /\ (Len(args[1]) = 0 => (Len(ret) = 1 /\ ret[1] = GF2E_one))

RootPolynomialWitness ==
    /\ op = "build_from_roots"
    /\ configured = 5
    /\ Len(args[1]) = 4
    /\ args[1][1] = args[1][3]
    /\ args[1][1] = generator(5)
    /\ args[1][2] = {1}
    /\ args[1][4] = {2}

\* C3: the product of two elements whose bits lie below 8 * byte_size, by
\* operator* and by operator*=, is the remainder of their carry-less product
\* modulo the modulus of that width, and has no bit at 8 * byte_size or above.
MultiplicationCorrect ==
    (op = "mul" /\ args[2] \subseteq MASK(8 * byte_size)
                /\ args[3] \subseteq MASK(8 * byte_size))
        => /\ ret = RefMul(8 * byte_size, args[2], args[3])
           /\ ret \subseteq MASK(8 * byte_size)

MultiplicationWitness ==
    /\ op = "mul" /\ args[1] = "*="
    /\ byte_size = 5
    /\ args[2] = MASK(40) /\ args[3] = generator(5)
    /\ ret # {}

\* C4: a call of init_extension_field throws exactly when lambda is not 4, 5
\* or 6, and then leaves byte_size, reduce and the table as they were;
\* otherwise it sets byte_size to lambda, reduce to the routine of 8 * lambda
\* bits and the table to the one of that field.  So once a call has returned,
\* the three belong to the lambda of the last call that returned.
ConfigurationConsistent ==
    /\ [][op' = "init_extension_field"
            => IF args'[1] \in {4, 5, 6}
               THEN /\ ~err'
                    /\ byte_size' = args'[1]
                    /\ reduce' = RoutineOf(args'[1])
                    /\ lifting_lut' = RefLiftTable[args'[1]]
               ELSE /\ err'
                    /\ UNCHANGED <<reduce, byte_size, lifting_lut>>]_vars
    /\ [](configured # 0
            => /\ byte_size = configured
               /\ reduce = RoutineOf(configured)
               /\ lifting_lut = RefLiftTable[configured])

ConfigurationWitness ==
    /\ op = "init_extension_field" /\ err
    /\ args[1] = 7
    /\ configured = 5

\* C5 as stated: lift_uint8_t called before any call of init_extension_field
\* has returned reports an error.
LiftFailsBeforeConfiguration ==
    (op = "lift" /\ configured = 0) => err

\* C5 as amended: lift_uint8_t never reports an error.  Before any call of
\* init_extension_field has returned it gives the zero element for every
\* byte; afterwards it gives the table entry of the byte.
LiftNeverFails ==
    op = "lift"
        => /\ ~err
           /\ configured = 0 => ret = GF2E_zero
           /\ configured # 0 => ret = RefLiftTable[configured][args[1]]

LiftBeforeConfigurationWitness ==
    /\ op = "lift" /\ configured = 0
    /\ args[1] = 1
    /\ ret = GF2E_zero /\ ~err

\* C6: once configured, lift(0) = 0, lift(1) = 1, lift(v) is the XOR over the
\* set bits b of v of generator^b, and lift(p) + lift(q) = lift(p XOR q).
LiftAdditive ==
    configured # 0
        => /\ lift_uint8_t(lifting_lut, 0) = GF2E_zero
           /\ lift_uint8_t(lifting_lut, 1) = GF2E_one
           /\ op = "lift"
                => /\ ret = XorOver([b \in 0 .. 7 |->
                                       IF b \in BitsOf(args[1])
                                       THEN RefGenPowTable[configured][b] ELSE {}],
                                    0, 7)
                   /\ \A q \in Bytes :
                          GF2E_add(ret, lift_uint8_t(lifting_lut, q))
                              = lift_uint8_t(lifting_lut, ByteXor(args[1], q))

LiftAdditiveWitness ==
    /\ op = "lift" /\ configured = 6
    /\ args[1] = 255
    /\ ret # GF2E_zero

\* C7: once configured, the 256 table values are pairwise distinct, and the
\* product of two table values is a table value.
LiftEmbedding ==
    configured # 0
        => /\ Cardinality(LiftImage) = 256
           /\ (op = "mul" /\ args[2] \in LiftImage /\ args[3] \in LiftImage)
                => ret \in LiftImage

LiftEmbeddingWitness ==
    /\ op = "mul" /\ configured = 4
    /\ args[2] = lifting_lut[128] /\ args[3] = lifting_lut[2]
    /\ ret = lifting_lut[27]

\* C8: dot_product of two vectors of one length, which reduces the XOR of the
\* unreduced products once, is the XOR of the products reduced one by one.
DotProductLazyEqualsEager ==
    (op = "dot_product" /\ Len(args[1]) = Len(args[2]))
        => /\ ~err
           /\ ret = XorOver([i \in 1 .. Len(args[1]) |->
                               GF2E_mul(reduce, args[1][i], args[2][i])],
                            1, Len(args[1]))

DotProductWitness ==
    /\ op = "dot_product" /\ ~err
    /\ byte_size = 6
    /\ Len(args[1]) = 2
    /\ args[1][1] = MASK(48) /\ args[2][1] = MASK(48)
    /\ ret # {}

\* C9 as stated: from_bytes of the buffer to_bytes wrote gives the element
\* written, however the element was obtained.
RoundTripAll ==
    op = "from_bytes" => ret = args[2]

\* C9 as amended: from_bytes of the buffer to_bytes wrote gives the low
\* 8 * byte_size bits of the element written: the element itself when it has
\* no bit at 8 * byte_size or above, as every element from from_bytes, lift,
\* multiplication and their sums has.
RoundTripReduced ==
    op = "from_bytes"
        => /\ ret = AND(args[2], MASK(8 * byte_size))
           /\ args[2] \subseteq MASK(8 * byte_size) => ret = args[2]
           /\ args[1] # "raw" => ret = args[2]

RoundTripWitness ==
    /\ op = "from_bytes" /\ args[1] = "mul"
    /\ byte_size = 6
    /\ \E i \in args[2] : i >= 40
    /\ ret = args[2]

\* C10: every result of GF2E::reduce, of operator*, operator*= and of
\* dot_product, on whatever bit patterns, has no bit at the width of the
\* active routine or above, and so none at 8 * byte_size or above.
ExactWidth ==
    (op \in {"reduce", "mul", "dot_product"} /\ ~err)
        => /\ ret \subseteq MASK(Width(reduce))
           /\ ret \subseteq MASK(8 * byte_size)

ExactWidthWitness ==
    /\ op = "reduce" /\ reduce = "reduce_GF2_48"
    /\ args[1] = MASK(128)
    /\ ret # {}

=============================================================================
